---- MODULE Spec2Model ----
(***************************************************************************)
(* RL Tools start message (lib/rltools/messages.py) and its two callers   *)
(* (hooks/doc-opened.py and the Start Message push button).               *)
(*                                                                         *)
(* One behaviour is one invocation of show_start_message.  The inputs     *)
(* (caller, force, doc, open_worksets_after, Python engine) are chosen in *)
(* Init; every step of the invocation is one action; the outcome of each  *)
(* call into the host (WPF, TaskDialog, PostCommand, document properties) *)
(* is chosen nondeterministically among "works" and "raises".             *)
(*                                                                         *)
(* A string is a sequence of atoms: "*" and "\n" are atoms of their own,  *)
(* and a run of other characters may be kept together as one atom (no     *)
(* separator that is searched for -- "**", "\n\n", "\n" -- can begin or   *)
(* end inside such a run), so that str.split and str.replace are computed *)
(* as Python computes them.                                               *)
(***************************************************************************)
EXTENDS Integers, Sequences, FiniteSets, TLC

VARIABLES
    caller,              \* "hook" | "button" | "direct": who calls show_start_message
    engine,              \* "py2" (IronPython) | "py3" (CPython): decides hasattr()
    force,               \* argument force
    doc,                 \* argument doc (see Documents)
    open_worksets_after, \* argument open_worksets_after
    message,             \* the message handed to the renderer
    pc,                  \* position of the invocation
    shown,               \* local variable shown: "unset" | "True" | "False"
    ret,                 \* value returned: "unset" | "None"
    modal,               \* modal dialog the call is blocked in: "none" | "wpf" | "taskdialog"
    richAttempts,        \* calls of _alert_wpf_with_bold
    richResult,          \* "none" | "ok" | "fail": what _alert_wpf_with_bold returned
    richDisplayed,       \* WPF windows put on screen
    richContent,         \* TextBlocks of the WPF window (see RenderMessage)
    dialogResult,        \* win.DialogResult: "unset" | "True"
    plainAttempts,       \* entries of the TaskDialog fallback
    plainResult,         \* "none" | "ok" | "fail"
    plainDisplayed,      \* TaskDialogs put on screen
    shownText,           \* text handed to TaskDialog.Show or to print
    consoleMsgs,         \* lines printed by the last-resort print
    dismissals,          \* dialogs the user has dismissed
    followupCalls,       \* calls of _open_worksets_dialog_safely
    postedCommands,      \* Worksets commands posted to Revit
    trace                \* the stages entered, in order

vars == << caller, engine, force, doc, open_worksets_after, message, pc, shown, ret,
           modal, richAttempts, richResult, richDisplayed, richContent, dialogResult,
           plainAttempts, plainResult, plainDisplayed, shownText, consoleMsgs,
           dismissals, followupCalls, postedCommands, trace >>

inputs == << caller, engine, force, doc, open_worksets_after, message >>

\* Longest message the renderer is applied to in RenderSpec.
MaxLen == 7

\* The atoms of the messages of RenderSpec.
Alphabet == {"a", "b", "c", "*", "\n"}

START_MESSAGE ==
    << "Please Check Your Current ",
       "*",
       "*",
       "<<Workset>>",
       "*",
       "*",
       ".",
       "\n",
       "\n",
       "For New Users, please read the ",
       "*",
       "*",
       "<<Starting View>>",
       "*",
       "*",
       " (Available in only new projects) for GB Standards & Best Practices." >>

NL == <<"\n">>
PARA_DELIM == <<"\n", "\n">>
BOLD_DELIM == <<"*", "*">>

(***************************************************************************)
(* str.find / str.split / str.replace of Python, for a non-empty          *)
(* separator: matches are taken left to right and do not overlap.  The    *)
(* scans are by position, as in CPython.                                  *)
(***************************************************************************)
\* s.find(d, start): the 1-based index of the leftmost occurrence of d in s at
\* or after start, 0 if there is none
Find(s, d, start) ==
    LET at == {i \in start..(Len(s) - Len(d) + 1) : SubSeq(s, i, i + Len(d) - 1) = d}
    IN  IF at = {} THEN 0 ELSE CHOOSE i \in at : \A j \in at : i <= j

\* The strings: the arguments of Split and Replace are taken by value.
Strings == Seq(STRING)

\* s.split(d)
Split[s \in Strings, d \in Strings] ==
    LET Pieces[from \in 1..(Len(s) + 1)] ==
            LET i == Find(s, d, from)
            IN  IF i = 0 THEN << SubSeq(s, from, Len(s)) >>
                ELSE << SubSeq(s, from, i - 1) >> \o Pieces[i + Len(d)]
    IN  Pieces[1]

\* s.replace(old, new)
Replace[s \in Strings, old \in Strings, new \in Strings] ==
    LET Rest[from \in 1..(Len(s) + 1)] ==
            LET i == Find(s, old, from)
            IN  IF i = 0 THEN SubSeq(s, from, Len(s))
                ELSE SubSeq(s, from, i - 1) \o new \o Rest[i + Len(old)]
    IN  Rest[1]

\* START_MESSAGE.replace("**", "")
StripBold(s) == Replace[s, BOLD_DELIM, << >>]

(***************************************************************************)
(* The WPF inlines.  Run(chunk) is [kind |-> "Run"], Bold(Run(chunk)) is  *)
(* [kind |-> "Bold"], LineBreak() is [kind |-> "LineBreak"].              *)
(***************************************************************************)
Run(chunk) == [kind |-> "Run", text |-> chunk]
Bold(run) == [kind |-> "Bold", text |-> run.text]
LineBreak == [kind |-> "LineBreak", text |-> << >>]

\* _add_text_chunk(tb, text, make_bold): tb.Inlines after the call.
\* After[n] is tb.Inlines after n rounds of "for idx, chunk in enumerate(parts)";
\* round n has idx = n - 1.
AddTextChunk(inlines, text, make_bold) ==
    LET parts == Split[text, NL]
        After[n \in 0..Len(parts)] ==
            IF n = 0 THEN inlines
            ELSE LET run == Run(parts[n])
                     one == Append(After[n - 1], IF make_bold THEN Bold(run) ELSE run)
                 IN  IF n - 1 < Len(parts) - 1 THEN Append(one, LineBreak) ELSE one
    IN  After[Len(parts)]

\* MakeBold with the parity the wrong way round
MakeBold_Even(i) == i % 2 = 0

\* make_bold = (i % 2 == 1)
MakeBold(i) == i % 2 = 1

\* The inlines of the TextBlock of one paragraph.  After[n] is tb.Inlines after
\* n rounds of "for i, seg in enumerate(segments)"; round n has i = n - 1.
AddSegments(para) ==
    LET segments == Split[para, BOLD_DELIM]
        After[n \in 0..Len(segments)] ==
            IF n = 0 THEN << >>
            ELSE AddTextChunk(After[n - 1], segments[n], MakeBold(n - 1))
    IN  After[Len(segments)]

\* One TextBlock: its top margin (8 when root.Children.Count > 0) and its inlines.
TextBlock(count, para) ==
    [margin  |-> IF count > 0 THEN 8 ELSE 0,
     inlines |-> AddSegments(para)]

\* root.Children after "for para in message.split('\n\n')".  Children[n] is
\* root.Children after n rounds, when root.Children.Count is n.
RenderMessage(msg) ==
    LET paras == Split[msg, PARA_DELIM]
        Children[n \in 0..Len(paras)] ==
            IF n = 0 THEN << >>
            ELSE Append(Children[n - 1], TextBlock(n - 1, paras[n]))
    IN  Children[Len(paras)]

(***************************************************************************)
(* Documents.  A property of the Revit document reads as a bool, is not   *)
(* there (AttributeError), or its getter raises another exception (for    *)
(* instance on a document that is no longer valid).                       *)
(***************************************************************************)
PropertyReads == {"true", "false", "missing", "raises"}

\* doc = None
NoDoc == [present |-> FALSE, IsFamilyDocument |-> "missing", IsLinked |-> "missing"]

Documents ==
    {NoDoc} \cup [present : {TRUE}, IsFamilyDocument : PropertyReads, IsLinked : PropertyReads]

\* ShouldShowForDoc without the test of IsLinked
ShouldShowForDoc_NoLinked(d, eng) ==
    IF ~d.present THEN "True"
    ELSE IF d.IsFamilyDocument = "raises" THEN "raise"
    ELSE IF d.IsFamilyDocument = "true" THEN "False"
    ELSE "True"

\* _should_show_for_doc(doc): "True", "False", or "raise" when a property read
\* raises something the function does not catch.  getattr with a default catches
\* AttributeError only; hasattr catches every exception in Python 2 and
\* AttributeError only in Python 3.
ShouldShowForDoc(d, eng) ==
    IF ~d.present THEN "True"
    ELSE IF d.IsFamilyDocument = "raises" THEN "raise"
    ELSE IF d.IsFamilyDocument = "true" THEN "False"
    ELSE IF d.IsLinked = "raises" /\ eng = "py3" THEN "raise"
    ELSE IF d.IsLinked = "true" THEN "False"
    ELSE "True"

(***************************************************************************)
(* The callers.  The hook passes force = (doc is None); the push button   *)
(* passes force = True and runs under CPython ("#! python3"); both pass   *)
(* open_worksets_after = True.  "direct" is any other call of the public  *)
(* function.                                                              *)
(***************************************************************************)
HookCall == caller = "hook" /\ force = (doc = NoDoc) /\ open_worksets_after = TRUE

ButtonCall == caller = "button" /\ engine = "py3" /\ force = TRUE /\ open_worksets_after = TRUE

DirectCall == caller = "direct"

Fresh ==
    /\ shown = "unset"
    /\ ret = "unset"
    /\ modal = "none"
    /\ richAttempts = 0
    /\ richResult = "none"
    /\ richDisplayed = 0
    /\ richContent = << >>
    /\ dialogResult = "unset"
    /\ plainAttempts = 0
    /\ plainResult = "none"
    /\ plainDisplayed = 0
    /\ shownText = << >>
    /\ consoleMsgs = 0
    /\ dismissals = 0
    /\ followupCalls = 0
    /\ postedCommands = 0
    /\ trace = << >>

Init ==
    /\ caller \in {"hook", "button", "direct"}
    /\ engine \in {"py2", "py3"}
    /\ force \in BOOLEAN
    /\ doc \in Documents
    /\ open_worksets_after \in BOOLEAN
    /\ HookCall \/ ButtonCall \/ DirectCall
    /\ message = START_MESSAGE
    /\ pc = "call"
    /\ Fresh

(***************************************************************************)
(* show_start_message, step 1: the visibility rule.                       *)
(***************************************************************************)
\* Visible without the short circuit on force
Visible_NoForce == ShouldShowForDoc(doc, engine)

\* force or _should_show_for_doc(doc): the filter is not called when force is set
Visible == IF force THEN "True" ELSE ShouldShowForDoc(doc, engine)

Decide ==
    /\ pc = "call"
    /\ LET visible == Visible
       IN  \/ /\ visible = "True"
              /\ pc' = "wpf_build"
              /\ ret' = ret
           \/ /\ visible = "False"
              /\ pc' = "done"
              /\ ret' = "None"
           \/ /\ visible = "raise"
              /\ pc' = "raised"
              /\ ret' = ret
    /\ UNCHANGED << inputs, shown, modal, richAttempts, richResult, richDisplayed,
                    richContent, dialogResult, plainAttempts, plainResult,
                    plainDisplayed, shownText, consoleMsgs, dismissals,
                    followupCalls, postedCommands, trace >>

(***************************************************************************)
(* _alert_wpf_with_bold.  WpfBuild is everything before win.ShowDialog(): *)
(* loading the assemblies, importing the types, building the window, the  *)
(* TextBlocks and the OK button.  Any of it may raise.                    *)
(***************************************************************************)
WpfBuild ==
    /\ pc = "wpf_build"
    /\ richAttempts' = richAttempts + 1
    /\ trace' = Append(trace, "rich")
    /\ \/ /\ richContent' = RenderMessage(message)
          /\ pc' = "wpf_show"
          /\ richResult' = richResult
       \/ /\ richContent' = richContent
          /\ pc' = "fallback_check"
          /\ richResult' = "fail"
    /\ UNCHANGED << inputs, shown, ret, modal, richDisplayed, dialogResult,
                    plainAttempts, plainResult, plainDisplayed, shownText,
                    consoleMsgs, dismissals, followupCalls, postedCommands >>

\* WpfShowDialog with win.Show() for win.ShowDialog(): the window is put on
\* screen and the call goes on without waiting for the user
WpfShowDialog_NonModal ==
    /\ pc = "wpf_show"
    /\ \/ /\ richDisplayed' = richDisplayed + 1
          /\ richResult' = "ok"
       \/ /\ richDisplayed' = richDisplayed
          /\ richResult' = "fail"
    /\ pc' = "fallback_check"
    /\ UNCHANGED << inputs, shown, ret, modal, richAttempts, richContent, dialogResult,
                    plainAttempts, plainResult, plainDisplayed, shownText,
                    consoleMsgs, dismissals, followupCalls, postedCommands, trace >>

\* win.ShowDialog() is entered: it raises at once, or the window is on screen
\* and the call blocks in its modal loop.
WpfShowDialog ==
    /\ pc = "wpf_show"
    /\ \/ /\ richDisplayed' = richDisplayed + 1
          /\ modal' = "wpf"
          /\ pc' = "wpf_modal"
          /\ richResult' = richResult
       \/ /\ richDisplayed' = richDisplayed
          /\ modal' = modal
          /\ pc' = "fallback_check"
          /\ richResult' = "fail"
    /\ UNCHANGED << inputs, shown, ret, richAttempts, richContent, dialogResult,
                    plainAttempts, plainResult, plainDisplayed, shownText,
                    consoleMsgs, dismissals, followupCalls, postedCommands, trace >>

\* The user clicks OK: _close runs inside the modal loop.  Setting DialogResult
\* is guarded by try/except; win.Close() is not, and what it raises leaves
\* ShowDialog and is caught by the except of _alert_wpf_with_bold.
UserClickOK ==
    /\ pc = "wpf_modal"
    /\ \E setOk \in BOOLEAN, closeOk \in BOOLEAN :
          /\ dialogResult' = IF setOk THEN "True" ELSE dialogResult
          /\ richResult' = IF closeOk THEN "ok" ELSE "fail"
    /\ modal' = "none"
    /\ dismissals' = dismissals + 1
    /\ pc' = "fallback_check"
    /\ UNCHANGED << inputs, shown, ret, richAttempts, richDisplayed, richContent,
                    plainAttempts, plainResult, plainDisplayed, shownText,
                    consoleMsgs, followupCalls, postedCommands, trace >>

\* The user closes the window from its title bar: no handler runs.
UserCloseWindow ==
    /\ pc = "wpf_modal"
    /\ richResult' = "ok"
    /\ modal' = "none"
    /\ dismissals' = dismissals + 1
    /\ pc' = "fallback_check"
    /\ UNCHANGED << inputs, shown, ret, richAttempts, richDisplayed, richContent,
                    dialogResult, plainAttempts, plainResult, plainDisplayed,
                    shownText, consoleMsgs, followupCalls, postedCommands, trace >>

(***************************************************************************)
(* show_start_message, steps 2 and 3: shown = _alert_wpf_with_bold(...),  *)
(* then the TaskDialog fallback and the last-resort print.                *)
(***************************************************************************)
\* FallbackCheck without the test "if not shown"
FallbackCheck_AlwaysPlain ==
    /\ pc = "fallback_check"
    /\ shown' = IF richResult = "ok" THEN "True" ELSE "False"
    /\ pc' = "plain"
    /\ UNCHANGED << inputs, ret, modal, richAttempts, richResult, richDisplayed,
                    richContent, dialogResult, plainAttempts, plainResult,
                    plainDisplayed, shownText, consoleMsgs, dismissals,
                    followupCalls, postedCommands, trace >>

FallbackCheck ==
    /\ pc = "fallback_check"
    /\ shown' = IF richResult = "ok" THEN "True" ELSE "False"
    /\ pc' = IF richResult = "ok" THEN "step4" ELSE "plain"
    /\ UNCHANGED << inputs, ret, modal, richAttempts, richResult, richDisplayed,
                    richContent, dialogResult, plainAttempts, plainResult,
                    plainDisplayed, shownText, consoleMsgs, dismissals,
                    followupCalls, postedCommands, trace >>

\* the import of TaskDialog or TaskDialog.Show raises, or the dialog is on screen
TaskDialogShow ==
    /\ pc = "plain"
    /\ plainAttempts' = plainAttempts + 1
    /\ trace' = Append(trace, "plain")
    /\ \/ /\ shownText' = StripBold(message)
          /\ plainDisplayed' = plainDisplayed + 1
          /\ modal' = "taskdialog"
          /\ pc' = "td_modal"
          /\ plainResult' = plainResult
       \/ /\ shownText' = shownText
          /\ plainDisplayed' = plainDisplayed
          /\ modal' = modal
          /\ pc' = "print"
          /\ plainResult' = "fail"
    /\ UNCHANGED << inputs, shown, ret, richAttempts, richResult, richDisplayed,
                    richContent, dialogResult, consoleMsgs, dismissals,
                    followupCalls, postedCommands >>

\* UserDismissTaskDialog without the assignment shown = True
UserDismissTaskDialog_ForgetsShown ==
    /\ pc = "td_modal"
    /\ modal' = "none"
    /\ dismissals' = dismissals + 1
    /\ plainResult' = "ok"
    /\ pc' = "step4"
    /\ UNCHANGED << inputs, shown, ret, richAttempts, richResult, richDisplayed,
                    richContent, dialogResult, plainAttempts, plainDisplayed,
                    shownText, consoleMsgs, followupCalls, postedCommands, trace >>

\* the user dismisses the TaskDialog; TaskDialog.Show returns; shown = True
UserDismissTaskDialog ==
    /\ pc = "td_modal"
    /\ modal' = "none"
    /\ dismissals' = dismissals + 1
    /\ plainResult' = "ok"
    /\ shown' = "True"
    /\ pc' = "step4"
    /\ UNCHANGED << inputs, ret, richAttempts, richResult, richDisplayed,
                    richContent, dialogResult, plainAttempts, plainDisplayed,
                    shownText, consoleMsgs, followupCalls, postedCommands, trace >>

\* PrintFallback that tries the rich dialog once more after printing
PrintFallback_Retries ==
    /\ pc = "print"
    /\ consoleMsgs' = consoleMsgs + 1
    /\ shownText' = StripBold(message)
    /\ trace' = Append(trace, "log")
    /\ pc' = IF richAttempts < 2 THEN "wpf_build" ELSE "step4"
    /\ UNCHANGED << inputs, shown, ret, modal, richAttempts, richResult,
                    richDisplayed, richContent, dialogResult, plainAttempts,
                    plainResult, plainDisplayed, dismissals, followupCalls,
                    postedCommands >>

\* except Exception: print(...)
PrintFallback ==
    /\ pc = "print"
    /\ consoleMsgs' = consoleMsgs + 1
    /\ shownText' = StripBold(message)
    /\ trace' = Append(trace, "log")
    /\ pc' = "step4"
    /\ UNCHANGED << inputs, shown, ret, modal, richAttempts, richResult,
                    richDisplayed, richContent, dialogResult, plainAttempts,
                    plainResult, plainDisplayed, dismissals, followupCalls,
                    postedCommands >>

(***************************************************************************)
(* show_start_message, step 4, and the end of the function (which returns *)
(* no value).                                                             *)
(***************************************************************************)
\* StepFour with "if open_worksets_after" for "if shown and open_worksets_after"
StepFour_IgnoresShown ==
    /\ pc = "step4"
    /\ IF open_worksets_after
       THEN /\ followupCalls' = followupCalls + 1
            /\ trace' = Append(trace, "followup")
            /\ pc' = "worksets"
            /\ ret' = ret
       ELSE /\ followupCalls' = followupCalls
            /\ trace' = trace
            /\ pc' = "done"
            /\ ret' = "None"
    /\ UNCHANGED << inputs, shown, modal, richAttempts, richResult, richDisplayed,
                    richContent, dialogResult, plainAttempts, plainResult,
                    plainDisplayed, shownText, consoleMsgs, dismissals,
                    postedCommands >>

StepFour ==
    /\ pc = "step4"
    /\ IF shown = "True" /\ open_worksets_after
       THEN /\ followupCalls' = followupCalls + 1
            /\ trace' = Append(trace, "followup")
            /\ pc' = "worksets"
            /\ ret' = ret
       ELSE /\ followupCalls' = followupCalls
            /\ trace' = trace
            /\ pc' = "done"
            /\ ret' = "None"
    /\ UNCHANGED << inputs, shown, modal, richAttempts, richResult, richDisplayed,
                    richContent, dialogResult, plainAttempts, plainResult,
                    plainDisplayed, shownText, consoleMsgs, dismissals,
                    postedCommands >>

\* _open_worksets_dialog_safely: everything is inside try/except
OpenWorksetsDialogSafely ==
    /\ pc = "worksets"
    /\ \E outcome \in {"import_raises", "lookup_raises", "no_command", "post_raises", "posted"} :
          postedCommands' = IF outcome = "posted" THEN postedCommands + 1
                            ELSE postedCommands
    /\ pc' = "done"
    /\ ret' = "None"
    /\ UNCHANGED << inputs, shown, modal, richAttempts, richResult, richDisplayed,
                    richContent, dialogResult, plainAttempts, plainResult,
                    plainDisplayed, shownText, consoleMsgs, dismissals,
                    followupCalls, trace >>

Next ==
    \/ Decide
    \/ WpfBuild
    \/ WpfShowDialog
    \/ UserClickOK
    \/ UserCloseWindow
    \/ FallbackCheck
    \/ TaskDialogShow
    \/ UserDismissTaskDialog
    \/ PrintFallback
    \/ StepFour
    \/ OpenWorksetsDialogSafely

Spec == Init /\ [][Next]_vars

\* The interpreter runs the call to its end, and the user eventually dismisses
\* a modal dialog that is on screen.
FairSpec == Spec /\ WF_vars(Next)

(***************************************************************************)
(* _alert_wpf_with_bold(title, message) applied to any short message.     *)
(***************************************************************************)
Messages == UNION {[1..n -> Alphabet] : n \in 0..MaxLen}

InitRender ==
    /\ caller = "direct"
    /\ engine = "py3"
    /\ force = TRUE
    /\ doc = NoDoc
    /\ open_worksets_after = FALSE
    /\ message \in Messages
    /\ pc = "wpf_build"
    /\ Fresh

RenderSpec == InitRender /\ [][WpfBuild]_vars

Terminated == pc \in {"done", "raised"}

(***************************************************************************)
(* The properties.  "A presentation succeeded" means that the call of     *)
(* _alert_wpf_with_bold returned True (richResult = "ok") or that         *)
(* TaskDialog.Show returned (plainResult = "ok").                         *)
(***************************************************************************)
DialogShown == richResult = "ok" \/ plainResult = "ok"

\* C1: with force = False and a document whose IsFamilyDocument or IsLinked
\* reads true, the call does nothing visible -- no WPF window, no TaskDialog,
\* no console line, no call of the Worksets follow-up, no posted command -- and
\* it never reports "shown": shown is never set to True, and a call that
\* returns returns None.
C1_Pre ==
    /\ ~force
    /\ doc.present
    /\ (doc.IsFamilyDocument = "true" \/ doc.IsLinked = "true")

C1_FilteredDocIsSilent ==
    C1_Pre =>
        /\ richAttempts = 0 /\ richDisplayed = 0
        /\ plainAttempts = 0 /\ plainDisplayed = 0
        /\ consoleMsgs = 0
        /\ followupCalls = 0 /\ postedCommands = 0
        /\ shown # "True"
        /\ pc \in {"call", "done", "raised"}
        /\ (pc = "done" => ret = "None")

C1_Witness ==
    /\ C1_Pre
    /\ doc.IsFamilyDocument = "false"
    /\ doc.IsLinked = "true"
    /\ caller = "hook"
    /\ pc = "done"

\* C2: with force = True, or no document, or a document whose IsFamilyDocument
\* and IsLinked both read false, the call does not stop at the visibility rule:
\* it goes on to _alert_wpf_with_bold, which is called exactly once.
C2_Pre ==
    \/ force
    \/ ~doc.present
    \/ (doc.IsFamilyDocument = "false" /\ doc.IsLinked = "false")

C2_DisplayAttempted ==
    C2_Pre =>
        /\ pc # "raised"
        /\ (pc = "done" => richAttempts = 1)
        /\ (pc \notin {"call", "wpf_build"} => richAttempts = 1 /\ Head(trace) = "rich")

C2_Witness ==
    /\ force
    /\ doc.present
    /\ doc.IsFamilyDocument = "true"
    /\ caller = "button"
    /\ richAttempts = 1
    /\ pc = "done"

\* C3: _open_worksets_dialog_safely is called at most once, never unless a
\* presentation (rich or plain) succeeded and open_worksets_after is set, and
\* when the call has returned it was called exactly once in that case and not
\* at all otherwise (skipped by the visibility rule, console fallback only,
\* open_worksets_after false).
C3_Expected == IF DialogShown /\ open_worksets_after THEN 1 ELSE 0

C3_FollowupExactlyOnce ==
    /\ followupCalls <= C3_Expected
    /\ (pc = "done" => followupCalls = C3_Expected)
    /\ (consoleMsgs > 0 => followupCalls = 0)
    /\ (richAttempts = 0 => followupCalls = 0)

C3_Witness ==
    /\ pc = "done"
    /\ followupCalls = 1
    /\ plainResult = "ok"

\* C4: when _open_worksets_dialog_safely is called, the dialog whose
\* presentation succeeded has been dismissed by the user and the call is not
\* blocked in any modal dialog; while the call is blocked in a modal dialog
\* the follow-up has not been called.
C4_FollowupAfterDismissal ==
    /\ (followupCalls > 0 => modal = "none" /\ dismissals >= 1 /\ DialogShown)
    /\ (modal # "none" => followupCalls = 0 /\ postedCommands = 0)

C4_Witness ==
    /\ followupCalls = 1
    /\ richResult = "ok"
    /\ dismissals = 1
    /\ postedCommands = 1

\* C5: at most one primary dialog (WPF window or TaskDialog) is put on screen
\* in one invocation.
C5_AtMostOneDialog == richDisplayed + plainDisplayed <= 1

\* C6 (as stated): the call returns True when a presentation succeeded and a
\* false value otherwise.
C6_ReturnsShown ==
    pc = "done" =>
        IF DialogShown THEN ret = "True" ELSE ret \in {"False", "None"}

\* C6 (amended): the call returns None in every case; its local flag shown is
\* True exactly when a presentation (rich or plain) succeeded, is False when
\* only the console fallback ran, and is never set when the call was skipped
\* by the visibility rule.
C6_ReturnsNoneTracksShown ==
    pc = "done" =>
        /\ ret = "None"
        /\ (shown = "True" <=> DialogShown)
        /\ (consoleMsgs > 0 => shown = "False")
        /\ (richAttempts = 0 <=> shown = "unset")

C6_Witness ==
    /\ pc = "done"
    /\ plainResult = "ok"
    /\ shown = "True"
    /\ ret = "None"

\* C7: no exception leaves show_start_message, whatever fails.
C7_NeverRaises == pc # "raised"

\* C8: every invocation ends (the user dismissing any modal dialog), and the
\* rich attempt, the plain attempt and the console fallback are each entered
\* at most once.
C8_Terminates ==
    /\ <>Terminated
    /\ [](richAttempts <= 1 /\ plainAttempts <= 1 /\ consoleMsgs <= 1)

C8_Witness ==
    /\ Terminated
    /\ richAttempts = 1
    /\ plainAttempts = 1
    /\ consoleMsgs = 1

\* C9: the window built for a message has one TextBlock per paragraph of
\* message.split("\n\n"), and in each the inlines are those of the segments of
\* para.split("**") in order, segment i (0-based, counted anew in each
\* paragraph) bold exactly when i is odd; "a**b**c" gives plain a, bold b,
\* plain c.
RECURSIVE C9_Concat(_)
C9_Concat(seqs) == IF seqs = << >> THEN << >> ELSE Head(seqs) \o C9_Concat(Tail(seqs))

\* the inlines of one segment: its lines, with a LineBreak between two lines
C9_SegmentInlines(text, emphasized) ==
    LET lines == Split[text, NL]
    IN  [j \in 1..(2 * Len(lines) - 1) |->
            IF j % 2 = 0 THEN [kind |-> "LineBreak", text |-> << >>]
            ELSE [kind |-> IF emphasized THEN "Bold" ELSE "Run",
                  text |-> lines[(j + 1) \div 2]]]

C9_ParagraphInlines(para) ==
    LET segs == Split[para, BOLD_DELIM]
    IN  C9_Concat([i \in 1..Len(segs) |-> C9_SegmentInlines(segs[i], (i - 1) % 2 = 1)])

C9_Example == <<"a", "*", "*", "b", "*", "*", "c">>

C9_BoldOnOddSegments ==
    pc = "wpf_show" =>
        LET paras == Split[message, PARA_DELIM]
        IN  /\ Len(richContent) = Len(paras)
            /\ \A k \in 1..Len(paras) :
                  richContent[k].inlines = C9_ParagraphInlines(paras[k])
            /\ (message = C9_Example =>
                  richContent = << [margin  |-> 0,
                                    inlines |-> << [kind |-> "Run", text |-> <<"a">>],
                                                   [kind |-> "Bold", text |-> <<"b">>],
                                                   [kind |-> "Run", text |-> <<"c">>] >>] >>)

C9_Witness ==
    /\ pc = "wpf_show"
    /\ message = C9_Example
    /\ Len(richContent) = 1
    /\ Len(richContent[1].inlines) = 3

\* C10: the stages are entered in the order rich, plain, log: the TaskDialog
\* is tried exactly when the rich presentation was tried and failed, the
\* console line is printed exactly when the TaskDialog was tried and failed,
\* and after a rich presentation that succeeded neither is entered.
C10_Stages == SelectSeq(trace, LAMBDA s : s # "followup")

C10_StageOrder ==
    /\ C10_Stages \in {<< >>, <<"rich">>, <<"rich", "plain">>, <<"rich", "plain", "log">>}
    /\ (plainAttempts > 0 => richAttempts = 1 /\ richResult = "fail")
    /\ (consoleMsgs > 0 => plainAttempts = 1 /\ plainResult = "fail")
    /\ (richResult = "ok" => plainAttempts = 0 /\ consoleMsgs = 0)
    /\ (pc \in {"step4", "worksets", "done"} =>
          /\ (plainAttempts = 1 <=> richResult = "fail")
          /\ (consoleMsgs = 1 <=> plainResult = "fail"))

C10_Witness ==
    /\ pc = "done"
    /\ trace = <<"rich", "plain", "log">>

====
